---- MODULE Spec2Model ----
(***************************************************************************)
(* Model of the conversation access validator                              *)
(* (openhands/storage/conversation/conversation_validator.py) and of the   *)
(* file secrets store with its HTTP handlers                               *)
(* (openhands/storage/secrets/file_secrets_store.py,                       *)
(* openhands/server/routes/secrets.py).                                    *)
(***************************************************************************)
EXTENDS Integers, Sequences, FiniteSets, TLC

(***************************************************************************)
(* Part 1: conversation access validator                                   *)
(***************************************************************************)

\* Python's None, for a user id, a subject claim or a selected repository.
None == "None"

Users == {"alice", "bob"}
Identities == Users \cup {None}
ConvIds == {"c1", "c2"}

\* The coroutines that run validate() on the event loop; every await inside
\* _ensure_metadata_exists is a point where another one may run.
Calls == {"v1", "v2"}

\* Values of the environment variable OPENHANDS_CONVERSATION_VALIDATOR_CLS.
EnvUnset == "unset"
CookieCls == "openhands.storage.conversation.conversation_validator.CookieConversationValidator"
DefaultCls == "openhands.storage.conversation.conversation_validator.ConversationValidator"

\* The signing secrets a token may have been signed with; cfg.jwt_secret is one
\* of them or is not configured.
SigningSecrets == {"sk", "other"}
NoSecret == "nosecret"

\* The Cookie header of a request: no oh_session morsel (or an empty header), or
\* an oh_session value.  A value is either not a JWT at all, or a JWT signed
\* with some secret whose payload has a subject or has none.
NoCookie == [morsel |-> FALSE, jwt |-> FALSE, signed_with |-> NoSecret, sub |-> None]
CookieHeaders ==
    {NoCookie, [morsel |-> TRUE, jwt |-> FALSE, signed_with |-> NoSecret, sub |-> None]}
    \cup [morsel : {TRUE}, jwt : {TRUE}, signed_with : SigningSecrets, sub : Identities]

VARIABLES
    validator_cls_env,  \* os.environ['OPENHANDS_CONVERSATION_VALIDATOR_CLS']
    jwt_secret,         \* cfg.jwt_secret
    metadata_store,     \* conversation id -> ConversationMetadata, where one exists
    now,                \* datetime.now(timezone.utc), as a logical clock
    call                \* per coroutine: its position in validate() and its locals

validator_vars == <<validator_cls_env, jwt_secret, metadata_store, now, call>>

VARIABLES
    enc_key_env,        \* os.environ['SECRETS_ENC_KEY']
    crypto_available,   \* _CRYPTO_AVAILABLE, fixed when the module is imported
    file,               \* the byte store at 'secrets.json': <<>> or <<record>>
    request,            \* the request the last handler served
    response,           \* what it answered
    stored              \* history: the UserSecrets the last handler gave to store()

secrets_vars == <<enc_key_env, crypto_available, file, request, response, stored>>

VARIABLES
    handler,            \* per request in flight: its position in the route and its locals
    last_store          \* history: the request whose store() wrote the file last

race_vars == <<handler, last_store>>

VARIABLES
    dir,                \* users/*/secrets.json under the file store root, by user
    backups,            \* the secrets.json.bak-<ts> copies beside each of them
    mig                 \* the migration tool: its position in main() and its locals

migration_vars == <<dir, backups, mig>>

VARIABLES
    settings,           \* settings.secrets_store.provider_tokens as the settings store holds it
    legacy              \* the last call of invalidate_legacy_secrets_store, and what went before it
legacy_vars == <<settings, legacy>>

vars == <<validator_vars, secrets_vars, race_vars, migration_vars, legacy_vars>>

\* get_default_conversation_title: a title generated from the conversation id.
get_default_conversation_title(conversation_id) == <<"Conversation", conversation_id>>

ConversationMetadata(conversation_id, user_id, last_updated_at) ==
    [conversation_id |-> conversation_id,
     user_id |-> user_id,
     title |-> get_default_conversation_title(conversation_id),
     last_updated_at |-> last_updated_at,
     selected_repository |-> None]

\* A bug the create could have: the record is created without its owner.
new_metadata_ownerless(conversation_id, user_id, t) ==
    ConversationMetadata(conversation_id, None, t)

\* The record _ensure_metadata_exists creates for an id that has none.
new_metadata(conversation_id, user_id, t) ==
    ConversationMetadata(conversation_id, user_id, t)

\* ConversationStore.get_metadata raises FileNotFoundError for an id without record.
has_metadata(store, conversation_id) == conversation_id \in DOMAIN store

\* ConversationStore.save_metadata writes the record under its conversation id.
save_metadata(store, md) ==
    [c \in DOMAIN store \cup {md.conversation_id} |->
        IF c = md.conversation_id THEN md ELSE store[c]]

\* create_conversation_validator: the class named by the environment variable,
\* the base ConversationValidator when it is unset.
create_conversation_validator(env) == IF env = EnvUnset THEN DefaultCls ELSE env

\* CookieConversationValidator._parse_cookie: the oh_session value, or None.
HasToken(cookies_str) == cookies_str.morsel

\* A bug _decode_sub could have: the payload is read without verifying the
\* signature.
_decode_sub_unverified(cookies_str, secret) ==
    IF ~HasToken(cookies_str) THEN None
    ELSE IF secret = NoSecret THEN None
    ELSE IF ~cookies_str.jwt THEN None
    ELSE cookies_str.sub

\* CookieConversationValidator._decode_sub
_decode_sub(cookies_str, secret) ==
    IF ~HasToken(cookies_str) THEN None
    ELSE IF secret = NoSecret THEN None
    ELSE IF ~cookies_str.jwt \/ cookies_str.signed_with # secret THEN None
    ELSE cookies_str.sub

\* The request carries an oh_session value that jwt.decode does not accept under
\* the configured secret (no secret, not a JWT, another signature), or whose
\* payload has no sub.
TokenRejected(cookies_str, secret) ==
    /\ HasToken(cookies_str)
    /\ \/ secret = NoSecret
       \/ ~cookies_str.jwt
       \/ cookies_str.signed_with # secret
       \/ cookies_str.sub = None

\* The user id validate() passes to _ensure_metadata_exists: the cookie's subject
\* for the cookie validator, None for the base class.
resolve_user_id(cls, cookies_str, secret) ==
    IF cls = CookieCls THEN _decode_sub(cookies_str, secret) ELSE None

NoResult == [kind |-> "none", user_id |-> None]
Denied == [kind |-> "denied", user_id |-> None]
Returned(u) == [kind |-> "ok", user_id |-> u]

\* A bug the ownership check could have: an anonymous caller passes it.
validate_outcome_anon(cls, user_id, md) ==
    IF cls = CookieCls
    THEN IF md.user_id # None /\ user_id # None /\ user_id # md.user_id
         THEN Denied ELSE Returned(user_id)
    ELSE Returned(md.user_id)

\* The end of validate() once _ensure_metadata_exists has returned md.
\* CookieConversationValidator raises ConnectionRefusedError('permission_denied')
\* or returns user_id; the base class returns metadata.user_id.
validate_outcome(cls, user_id, md) ==
    IF cls = CookieCls
    THEN IF md.user_id # None /\ user_id # md.user_id THEN Denied ELSE Returned(user_id)
    ELSE Returned(md.user_id)

IdleCall ==
    [pc |-> "idle", conversation_id |-> "c1", user_id |-> None, rejected |-> FALSE,
     metadata |-> <<>>, created |-> FALSE, result |-> NoResult]

\* Records that exist before the run: left by earlier calls or by the routes that
\* create conversations, owned or ownerless (legacy).
InitialStores ==
    UNION {[D -> {ConversationMetadata("c1", u, 0) : u \in Identities}
                    \cup {ConversationMetadata("c2", u, 0) : u \in Identities}]
           : D \in SUBSET ConvIds}

WellFormedStore(store) == \A c \in DOMAIN store : store[c].conversation_id = c

ValidatorInit ==
    /\ validator_cls_env \in {EnvUnset, CookieCls}
    /\ jwt_secret \in {"sk", NoSecret}
    /\ metadata_store \in {s \in InitialStores : WellFormedStore(s)}
    /\ now = 0
    /\ call = [p \in Calls |-> IdleCall]

CallsInFlight == {p \in Calls : call[p].pc \notin {"idle", "done"}}

\* validate() is entered: the cookie is parsed and decoded (lines 131-132; line 36
\* in the base class) before the first await.
BeginValidate(p, conversation_id, cookies_str) ==
    /\ call[p].pc = "idle"
    /\ call' = [call EXCEPT ![p] =
          [IdleCall EXCEPT
              !.pc = "get_metadata",
              !.conversation_id = conversation_id,
              !.user_id = resolve_user_id(
                  create_conversation_validator(validator_cls_env), cookies_str, jwt_secret),
              !.rejected = TokenRejected(cookies_str, jwt_secret)]]
    /\ UNCHANGED <<validator_cls_env, jwt_secret, metadata_store, now, secrets_vars, race_vars, migration_vars, legacy_vars>>

\* _ensure_metadata_exists, line 57: the lookup.  FileNotFoundError leads to the
\* except branch, a record found is returned as it is.
GetMetadata(p) ==
    /\ call[p].pc = "get_metadata"
    /\ call' = [call EXCEPT ![p] =
          IF has_metadata(metadata_store, call[p].conversation_id)
          THEN [@ EXCEPT !.pc = "return",
                         !.metadata = <<metadata_store[call[p].conversation_id]>>]
          ELSE [@ EXCEPT !.pc = "save_metadata"]]
    /\ UNCHANGED <<validator_cls_env, jwt_secret, metadata_store, now, secrets_vars, race_vars, migration_vars, legacy_vars>>

\* _ensure_metadata_exists, lines 63-71: the create, with the caller as owner.
SaveMetadata(p) ==
    /\ call[p].pc = "save_metadata"
    /\ now' = now + 1
    /\ metadata_store' = save_metadata(metadata_store,
          new_metadata(call[p].conversation_id, call[p].user_id, now'))
    /\ call' = [call EXCEPT ![p].pc = "reread", ![p].created = TRUE]
    /\ UNCHANGED <<validator_cls_env, jwt_secret, secrets_vars, race_vars, migration_vars, legacy_vars>>

\* _ensure_metadata_exists, line 72: the re-read after the create.
RereadMetadata(p) ==
    /\ call[p].pc = "reread"
    /\ has_metadata(metadata_store, call[p].conversation_id)
    /\ call' = [call EXCEPT ![p].pc = "return",
                            ![p].metadata = <<metadata_store[call[p].conversation_id]>>]
    /\ UNCHANGED <<validator_cls_env, jwt_secret, metadata_store, now, secrets_vars, race_vars, migration_vars, legacy_vars>>

\* validate() after _ensure_metadata_exists: the ownership check and the return
\* (lines 138-147; line 38 in the base class).
FinishValidate(p) ==
    /\ call[p].pc = "return"
    /\ call' = [call EXCEPT
          ![p].pc = "done",
          ![p].result = validate_outcome(create_conversation_validator(validator_cls_env),
                                         call[p].user_id, call[p].metadata[1])]
    /\ UNCHANGED <<validator_cls_env, jwt_secret, metadata_store, now, secrets_vars, race_vars, migration_vars, legacy_vars>>

\* The caller has consumed the outcome; the coroutine slot serves the next request.
ForgetCall(p) ==
    /\ call[p].pc = "done"
    /\ call' = [call EXCEPT ![p] = IdleCall]
    /\ UNCHANGED <<validator_cls_env, jwt_secret, metadata_store, now, secrets_vars, race_vars, migration_vars, legacy_vars>>

ValidatorStep(p) ==
    \/ GetMetadata(p)
    \/ SaveMetadata(p)
    \/ RereadMetadata(p)
    \/ FinishValidate(p)
    \/ ForgetCall(p)

\* Requests arrive at any time: calls interleave at their awaits.
ValidatorNext ==
    \E p \in Calls :
        \/ \E c \in ConvIds, ck \in CookieHeaders : BeginValidate(p, c, ck)
        \/ ValidatorStep(p)

\* One request at a time: a call begins only when no other call is in flight.
ValidatorSeqNext ==
    \E p \in Calls :
        \/ \E c \in ConvIds, ck \in CookieHeaders :
              CallsInFlight = {} /\ BeginValidate(p, c, ck)
        \/ ValidatorStep(p)


(***************************************************************************)
(* Part 2: the file secrets store and the handlers of routes/secrets.py    *)
(***************************************************************************)

Providers == {"github", "gitlab"}
\* "" stands for an empty or missing value (None or '' in Python, both falsy).
Tokens == {"", "t1", "t2"}
Hosts == {"", "h1", "h2"}
ProviderTokens == [token : Tokens, host : Hosts]

SecretNames == {"n1", "n2"}
SecretValues == {"s1", "s2"}
Descriptions == {"", "d1"}
CustomSecrets == [secret : SecretValues, description : Descriptions]

\* Values of the environment variable SECRETS_ENC_KEY.
KeyUnset == "unset"
Passphrases == {"k1", "k2"}
NoKey == <<>>


EmptyMap == [x \in {} |-> x]
MapPut(m, k, v) == [x \in DOMAIN m \cup {k} |-> IF x = k THEN v ELSE m[x]]
MapRemove(m, k) == [x \in DOMAIN m \ {k} |-> m[x]]

\* UserSecrets(): no provider tokens, no custom secrets.
UserSecrets(provider_tokens, custom_secrets) ==
    [provider_tokens |-> provider_tokens, custom_secrets |-> custom_secrets]
EmptyUserSecrets == UserSecrets(EmptyMap, EmptyMap)

\* _derive_key: None without passphrase, else its SHA-256 digest.
_derive_key(env) == IF env = KeyUnset THEN NoKey ELSE <<"sha256", env>>

\* The JSON object in secrets.json.  A field that is missing is <<>>, a field
\* that is there is <<value>>.
Record(provider_tokens, provider_tokens_enc, custom_secrets) ==
    [provider_tokens |-> provider_tokens,
     provider_tokens_enc |-> provider_tokens_enc,
     custom_secrets |-> custom_secrets]

\* base64(nonce + AES-GCM ciphertext and tag): what was sealed and under which
\* key, and whether the bytes are still the ones written.  The nonce only makes
\* two envelopes of one payload differ; nothing reads it.
Envelope(key, tokens) ==
    [sealed_with |-> key, b64_ok |-> TRUE, intact |-> TRUE, tokens |-> tokens]

\* UserSecrets.model_dump(context={'expose_secrets': True})
model_dump(secrets) ==
    Record(<<secrets.provider_tokens>>, <<>>, secrets.custom_secrets)

\* _encrypt_provider_tokens: raises without key or primitive, or when the
\* primitive fails; otherwise the envelope.
_encrypt_provider_tokens(tokens_dict, env, crypto, primitive_fails) ==
    IF _derive_key(env) = NoKey \/ ~crypto \/ primitive_fails
    THEN [raised |-> TRUE, value |-> <<>>]
    ELSE [raised |-> FALSE, value |-> <<Envelope(_derive_key(env), tokens_dict)>>]

\* A bug the opening could have: the passphrase itself is used as the key, not
\* its digest.
_decrypt_provider_tokens_raw_key(enc, env, crypto) ==
    IF _derive_key(env) = NoKey \/ ~crypto
    THEN [raised |-> TRUE, error |-> "ValueError", value |-> EmptyMap]
    ELSE IF ~enc.b64_ok
    THEN [raised |-> TRUE, error |-> "binascii.Error", value |-> EmptyMap]
    ELSE IF ~enc.intact \/ enc.sealed_with # <<"raw", env>>
    THEN [raised |-> TRUE, error |-> "InvalidTag", value |-> EmptyMap]
    ELSE [raised |-> FALSE, error |-> "", value |-> enc.tokens]

\* _decrypt_provider_tokens: raises without key or primitive, on a malformed or
\* altered envelope and on an envelope sealed under another key.  The except
\* clause logs and re-raises the exception it caught (lines 56-58), so what the
\* caller gets is the exception of the call that failed: base64.b64decode raises
\* binascii.Error on text that is not base64, AESGCM.decrypt raises InvalidTag
\* when the tag does not verify (another key, altered bytes).
_decrypt_provider_tokens(enc, env, crypto) ==
    IF _derive_key(env) = NoKey \/ ~crypto
    THEN [raised |-> TRUE, error |-> "ValueError", value |-> EmptyMap]
    ELSE IF ~enc.b64_ok
    THEN [raised |-> TRUE, error |-> "binascii.Error", value |-> EmptyMap]
    ELSE IF ~enc.intact \/ enc.sealed_with # _derive_key(env)
    THEN [raised |-> TRUE, error |-> "InvalidTag", value |-> EmptyMap]
    ELSE [raised |-> FALSE, error |-> "", value |-> enc.tokens]

\* A bug load could have: the entries are taken as they are in the record.
NonEmptyTokens_unfiltered(tokens) == tokens

\* load, lines 83-87: only the entries with a non-empty token are kept.
NonEmptyTokens(tokens) ==
    [p \in {q \in DOMAIN tokens : tokens[q].token # ""} |-> tokens[p]]

\* A bug load could have: when the envelope cannot be opened, the plaintext field
\* of the record is used instead.
tokens_after_decrypt_fallback(kwargs, env, crypto) ==
    LET plain == IF kwargs.provider_tokens # <<>> THEN kwargs.provider_tokens[1] ELSE EmptyMap
    IN IF kwargs.provider_tokens_enc # <<>>
       THEN LET dec == _decrypt_provider_tokens(kwargs.provider_tokens_enc[1], env, crypto)
            IN IF dec.raised THEN plain ELSE dec.value
       ELSE plain

\* A bug load could have: with a key configured only the envelope is read, and a
\* record still in plaintext yields no tokens.
tokens_after_decrypt_enc_only(kwargs, env, crypto) ==
    IF kwargs.provider_tokens_enc # <<>>
    THEN LET dec == _decrypt_provider_tokens(kwargs.provider_tokens_enc[1], env, crypto)
         IN IF dec.raised THEN EmptyMap ELSE dec.value
    ELSE IF kwargs.provider_tokens # <<>> /\ _derive_key(env) = NoKey
    THEN kwargs.provider_tokens[1]
    ELSE EmptyMap

\* load, lines 72-79: the tokens load goes on with.  An envelope that is there
\* decides: its content, or nothing when it cannot be opened.
tokens_after_decrypt(kwargs, env, crypto) ==
    IF kwargs.provider_tokens_enc # <<>>
    THEN LET dec == _decrypt_provider_tokens(kwargs.provider_tokens_enc[1], env, crypto)
         IN IF dec.raised THEN EmptyMap ELSE dec.value
    ELSE IF kwargs.provider_tokens # <<>> THEN kwargs.provider_tokens[1] ELSE EmptyMap

\* A bug load could have: the FileNotFoundError of the byte store is not caught.
load_raises_when_missing(f, env, crypto) ==
    IF f = <<>>
    THEN [raised |-> TRUE, value |-> <<>>]
    ELSE [raised |-> FALSE,
          value |-> <<UserSecrets(NonEmptyTokens(tokens_after_decrypt(f[1], env, crypto)),
                                  f[1].custom_secrets)>>]

\* FileSecretsStore.load: None (<<>>) when the file is missing.
load(f, env, crypto) ==
    IF f = <<>>
    THEN [raised |-> FALSE, value |-> <<>>]
    ELSE [raised |-> FALSE,
          value |-> <<UserSecrets(NonEmptyTokens(tokens_after_decrypt(f[1], env, crypto)),
                                  f[1].custom_secrets)>>]

\* A bug store could have: the plaintext field stays beside the envelope.
store_record_keeps_plaintext(secrets, env, crypto, primitive_fails) ==
    LET data == model_dump(secrets)
        provider_tokens == data.provider_tokens[1]
    IN IF _derive_key(env) # NoKey /\ crypto /\ DOMAIN provider_tokens # {}
       THEN LET enc == _encrypt_provider_tokens(provider_tokens, env, crypto, primitive_fails)
            IN IF enc.raised THEN data ELSE [data EXCEPT !.provider_tokens_enc = enc.value]
       ELSE data

\* A bug store could have: the plaintext field is removed even when the seal
\* raised, so the tokens are in neither field.
store_record_drops_on_failure(secrets, env, crypto, primitive_fails) ==
    LET data == model_dump(secrets)
        provider_tokens == data.provider_tokens[1]
    IN IF _derive_key(env) # NoKey /\ crypto
       THEN IF DOMAIN provider_tokens = {}
            THEN [data EXCEPT !.provider_tokens = <<>>]
            ELSE LET enc == _encrypt_provider_tokens(provider_tokens, env, crypto,
                                                     primitive_fails)
                 IN IF enc.raised
                    THEN [data EXCEPT !.provider_tokens = <<>>]
                    ELSE [data EXCEPT !.provider_tokens_enc = enc.value,
                                      !.provider_tokens = <<>>]
       ELSE data

\* FileSecretsStore.store up to the write: the record that is serialized.
store_record(secrets, env, crypto, primitive_fails) ==
    LET data == model_dump(secrets)
        provider_tokens == data.provider_tokens[1]
    IN IF _derive_key(env) # NoKey /\ crypto
       THEN IF DOMAIN provider_tokens = {}
            THEN [data EXCEPT !.provider_tokens = <<>>]
            ELSE LET enc == _encrypt_provider_tokens(provider_tokens, env, crypto,
                                                     primitive_fails)
                 IN IF enc.raised
                    THEN data
                    ELSE [data EXCEPT !.provider_tokens_enc = enc.value,
                                      !.provider_tokens = <<>>]
       ELSE data

\* POSTProviderModel.provider_tokens: a dict in the order of the request body,
\* as the sequence of its items, one per provider.
\* The requests served: every update of github alone, gitlab set or sent without
\* token, and the updates of both providers that carry a token and a host for each.
IncomingItems ==
    [provider : {"github"}, token : Tokens, host : Hosts]
    \cup [provider : {"gitlab"}, token : {"", "t1"}, host : {"h1"}]
WholeItems == {a \in IncomingItems : a.token # "" /\ a.host # ""}
Incomings ==
    {<<>>} \cup {<<a>> : a \in IncomingItems}
    \cup {s \in {<<a, b>> : a \in WholeItems, b \in WholeItems} :
              s[1].provider # s[2].provider}

\* What validate_provider_token answered for an item: for its own token, and for
\* the existing token against the item's host.  The service is remote; any
\* answer is possible.
Verdicts == [token_ok : BOOLEAN, host_ok : BOOLEAN]
InvalidToken == "Invalid token. Please make sure it is a valid token."

\* check_provider_tokens, the loop body for item i and the rest of the loop.
RECURSIVE check_from(_, _, _, _, _)
check_from(incoming, existing, verdicts, i, msg) ==
    IF i > Len(incoming) THEN msg
    ELSE LET item == incoming[i]
             msg1 == IF item.token # ""
                     THEN (IF verdicts[i].token_ok THEN "" ELSE InvalidToken)
                     ELSE msg
             host_checked ==
                 /\ item.provider \in DOMAIN existing
                 /\ existing[item.provider].host # item.host
                 /\ existing[item.provider].token # ""
             msg2 == IF host_checked /\ ~verdicts[i].host_ok THEN InvalidToken ELSE msg1
         IN check_from(incoming, existing, verdicts, i + 1, msg2)

\* check_provider_tokens; existing is the empty map when the caller has none.
check_provider_tokens(incoming, existing, verdicts) ==
    check_from(incoming, existing, verdicts, 1, "")

\* A bug the merge could have: the existing host wins over the incoming one.
merge_item_keeps_host(merged_tokens, incoming) ==
    IF incoming.provider \in DOMAIN merged_tokens
    THEN LET existing == merged_tokens[incoming.provider]
         IN MapPut(merged_tokens, incoming.provider,
                [token |-> IF incoming.token = "" THEN existing.token ELSE incoming.token,
                 host |-> IF existing.host # "" THEN existing.host ELSE incoming.host])
    ELSE MapPut(merged_tokens, incoming.provider,
                [token |-> incoming.token, host |-> incoming.host])

\* store_provider_tokens, lines 157-165: one incoming item merged into the tokens.
merge_item(merged_tokens, incoming) ==
    IF incoming.provider \in DOMAIN merged_tokens
    THEN LET existing == merged_tokens[incoming.provider]
         IN MapPut(merged_tokens, incoming.provider,
                [token |-> IF incoming.token = "" THEN existing.token ELSE incoming.token,
                 host |-> IF incoming.host # "" THEN incoming.host ELSE existing.host])
    ELSE MapPut(merged_tokens, incoming.provider,
                [token |-> incoming.token, host |-> incoming.host])

\* store_provider_tokens, lines 150-165: the loop over the incoming items.
RECURSIVE merge_from(_, _, _)
merge_from(merged_tokens, incoming, i) ==
    IF i > Len(incoming) THEN merged_tokens
    ELSE merge_from(merge_item(merged_tokens, incoming[i]), incoming, i + 1)

\* A bug the merge could have: it starts from nothing instead of the existing tokens.
merge_provider_tokens_fresh(existing, incoming) == merge_from(EmptyMap, incoming, 1)

\* store_provider_tokens, lines 150-165: the existing tokens with the update merged in.
merge_provider_tokens(existing, incoming) == merge_from(existing, incoming, 1)

\* The answers of validate_provider_token that check_provider_tokens asks for;
\* an answer it does not ask for is left TRUE.
VerdictsFor(incoming, existing) ==
    {v \in [1..Len(incoming) -> Verdicts] :
        \A i \in 1..Len(incoming) :
            /\ incoming[i].token = "" => v[i].token_ok
            /\ ~(/\ incoming[i].provider \in DOMAIN existing
                 /\ existing[incoming[i].provider].host # incoming[i].host) => v[i].host_ok}

\* The messages check_provider_tokens can return for an update, over the answers
\* validate_provider_token can give.
check_outcomes(incoming, existing) ==
    {check_provider_tokens(incoming, existing, v) : v \in VerdictsFor(incoming, existing)}

\* The providers an update names.
Named(incoming) == {incoming[i].provider : i \in 1..Len(incoming)}
ItemFor(incoming, p) == incoming[CHOOSE i \in 1..Len(incoming) : incoming[i].provider = p]

\* What a handler does with load()'s answer: `existing or UserSecrets()`.
OrEmpty(loaded) == IF loaded.value = <<>> THEN EmptyUserSecrets ELSE loaded.value[1]

\* The handler answers and nothing is written.
Answer(op, arg, status, body) ==
    /\ request' = [op |-> op, arg |-> arg]
    /\ response' = [status |-> status, body |-> body]
    /\ stored' = <<>>
    /\ UNCHANGED <<enc_key_env, crypto_available, file, validator_vars, race_vars, migration_vars, legacy_vars>>

\* What can go wrong inside store(): the AES-GCM primitive raises (only when
\* something is sealed), or the byte store's write raises.
Faults(secrets) ==
    {"none", "write"}
    \cup (IF /\ _derive_key(enc_key_env) # NoKey /\ crypto_available
             /\ DOMAIN secrets.provider_tokens # {}
          THEN {"seal"} ELSE {})

\* FileSecretsStore.store called by a handler, and the handler's answer: the
\* record goes to the byte store in one write; a write that raises leaves the
\* file as it was and the handler answers 500.
StoreAndAnswer(op, arg, secrets, ok_status) ==
    /\ request' = [op |-> op, arg |-> arg]
    /\ UNCHANGED <<enc_key_env, crypto_available, validator_vars, race_vars, migration_vars, legacy_vars>>
    /\ \E fault \in Faults(secrets) :
       IF fault # "write"
       THEN /\ file' = <<store_record(secrets, enc_key_env, crypto_available, fault = "seal")>>
            /\ stored' = <<secrets>>
            /\ response' = [status |-> ok_status, body |-> <<>>]
       ELSE /\ file' = file
            /\ stored' = <<>>
            /\ response' = [status |-> 500, body |-> <<>>]

\* _dep_user_secrets: what secrets_store.load() returns to a route.
LoadSecrets ==
    LET loaded == load(file, enc_key_env, crypto_available)
    IN Answer("load", <<>>, IF loaded.raised THEN 500 ELSE 200, loaded.value)

\* POST /add-git-providers
StoreProviderTokens(incoming) ==
    LET loaded == load(file, enc_key_env, crypto_available)
        user_secrets == OrEmpty(loaded)
        updated_secrets ==
            [user_secrets EXCEPT
                !.provider_tokens = merge_provider_tokens(user_secrets.provider_tokens, incoming)]
    IN IF loaded.raised
       THEN Answer("store_provider_tokens", incoming, 500, <<>>)
       ELSE \E provider_err_msg \in check_outcomes(incoming, user_secrets.provider_tokens) :
              IF provider_err_msg # ""
              THEN Answer("store_provider_tokens", incoming, 401, <<>>)
              ELSE StoreAndAnswer("store_provider_tokens", incoming, updated_secrets, 200)

\* POST /unset-provider-tokens
UnsetProviderTokens ==
    StoreAndAnswer("unset_provider_tokens", <<>>, EmptyUserSecrets, 200)

\* A bug create could have: the record is rebuilt from the named secrets alone.
CreateCustomSecret_drops_tokens(incoming_secret) ==
    LET loaded == load(file, enc_key_env, crypto_available)
        existing_secrets == OrEmpty(loaded)
        custom_secrets == existing_secrets.custom_secrets
    IN IF loaded.raised
          THEN Answer("create_custom_secret", incoming_secret, 500, <<>>)
          ELSE IF incoming_secret.name \in DOMAIN custom_secrets
          THEN Answer("create_custom_secret", incoming_secret, 400, <<>>)
          ELSE StoreAndAnswer("create_custom_secret", incoming_secret,
                  UserSecrets(EmptyMap,
                      MapPut(custom_secrets, incoming_secret.name,
                             [secret |-> incoming_secret.value,
                              description |-> incoming_secret.description])),
                  201)

\* A bug create could have: the name is not looked up and the secret is replaced.
CreateCustomSecret_overwrites(incoming_secret) ==
    LET loaded == load(file, enc_key_env, crypto_available)
        existing_secrets == OrEmpty(loaded)
        custom_secrets == existing_secrets.custom_secrets
    IN StoreAndAnswer("create_custom_secret", incoming_secret,
          [existing_secrets EXCEPT !.custom_secrets =
              MapPut(custom_secrets, incoming_secret.name,
                     [secret |-> incoming_secret.value,
                      description |-> incoming_secret.description])],
          201)

\* POST /secrets
CreateCustomSecret(incoming_secret) ==
    LET loaded == load(file, enc_key_env, crypto_available)
        existing_secrets == OrEmpty(loaded)
        custom_secrets == existing_secrets.custom_secrets
    IN IF loaded.raised
          THEN Answer("create_custom_secret", incoming_secret, 500, <<>>)
          ELSE IF incoming_secret.name \in DOMAIN custom_secrets
          THEN Answer("create_custom_secret", incoming_secret, 400, <<>>)
          ELSE StoreAndAnswer("create_custom_secret", incoming_secret,
                  [existing_secrets EXCEPT !.custom_secrets =
                      MapPut(custom_secrets, incoming_secret.name,
                             [secret |-> incoming_secret.value,
                              description |-> incoming_secret.description])],
                  201)

\* A bug update could have: the other named secrets are not carried over.
UpdateCustomSecret_alone(secret_id, description) ==
    LET loaded == load(file, enc_key_env, crypto_available)
        existing_secrets == OrEmpty(loaded)
        custom_secrets == existing_secrets.custom_secrets
        arg == [secret_id |-> secret_id, description |-> description]
    IN IF secret_id \notin DOMAIN custom_secrets
       THEN Answer("update_custom_secret", arg, 404, <<>>)
       ELSE StoreAndAnswer("update_custom_secret", arg,
               [existing_secrets EXCEPT !.custom_secrets =
                   MapPut(EmptyMap, secret_id,
                          [secret |-> custom_secrets[secret_id].secret,
                           description |-> description])],
               200)

\* PUT /secrets/{secret_id}
UpdateCustomSecret(secret_id, description) ==
    LET loaded == load(file, enc_key_env, crypto_available)
        existing_secrets == OrEmpty(loaded)
        custom_secrets == existing_secrets.custom_secrets
        arg == [secret_id |-> secret_id, description |-> description]
    IN IF loaded.raised
          THEN Answer("update_custom_secret", arg, 500, <<>>)
          ELSE IF secret_id \notin DOMAIN custom_secrets
          THEN Answer("update_custom_secret", arg, 404, <<>>)
          ELSE StoreAndAnswer("update_custom_secret", arg,
                  [existing_secrets EXCEPT !.custom_secrets =
                      MapPut(custom_secrets, secret_id,
                             [secret |-> custom_secrets[secret_id].secret,
                              description |-> description])],
                  200)

\* A bug delete could have: an absent name is answered like a present one.
DeleteCustomSecret_absent_ok(secret_id) ==
    LET loaded == load(file, enc_key_env, crypto_available)
        existing_secrets == OrEmpty(loaded)
    IN StoreAndAnswer("delete_custom_secret", secret_id,
          [existing_secrets EXCEPT !.custom_secrets = MapRemove(@, secret_id)],
          200)

\* DELETE /secrets/{secret_id}
DeleteCustomSecret(secret_id) ==
    LET loaded == load(file, enc_key_env, crypto_available)
    IN IF loaded.raised
          THEN Answer("delete_custom_secret", secret_id, 500, <<>>)
          ELSE IF loaded.value = <<>>
          THEN Answer("delete_custom_secret", secret_id, 404, <<>>)
          ELSE IF secret_id \notin DOMAIN loaded.value[1].custom_secrets
          THEN Answer("delete_custom_secret", secret_id, 404, <<>>)
          ELSE StoreAndAnswer("delete_custom_secret", secret_id,
                  [loaded.value[1] EXCEPT !.custom_secrets = MapRemove(@, secret_id)],
                  200)

\* The operator changes SECRETS_ENC_KEY between two requests.
SetEncKey(k) ==
    /\ k # enc_key_env
    /\ enc_key_env' = k
    /\ request' = [op |-> "set_enc_key", arg |-> [from |-> enc_key_env, to |-> k]]
    /\ response' = [status |-> 0, body |-> <<>>]
    /\ stored' = <<>>
    /\ UNCHANGED <<crypto_available, file, validator_vars, race_vars, migration_vars, legacy_vars>>

\* A record found in the byte store when the run starts: written by an earlier
\* release in plaintext (an entry without token included), sealed under a
\* passphrase, sealed with the plaintext of an earlier release left beside it,
\* or damaged at rest.
LegacyTokens ==
    [p \in {"github", "gitlab"} |->
        IF p = "github" THEN [token |-> "t1", host |-> "h1"] ELSE [token |-> "", host |-> "h1"]]
SealedTokens == [p \in {"gitlab"} |-> [token |-> "t1", host |-> "h1"]]
LegacySecrets == [n \in {"n1"} |-> [secret |-> "s1", description |-> "d1"]]
InitialFiles ==
    {<<>>}
    \cup {<<Record(pt, enc, LegacySecrets)>> :
            pt \in {<<>>, <<LegacyTokens>>},
            enc \in {<<>>, <<Envelope(_derive_key("k1"), SealedTokens)>>,
                     <<[Envelope(_derive_key("k1"), SealedTokens) EXCEPT !.intact = FALSE]>>}}

SecretsInit ==
    /\ enc_key_env \in {KeyUnset} \cup Passphrases
    /\ crypto_available \in BOOLEAN
    /\ file \in InitialFiles
    /\ request = [op |-> "none", arg |-> <<>>]
    /\ response = [status |-> 0, body |-> <<>>]
    /\ stored = <<>>

\* The named secrets the requests of this specification create, update and delete.
FewSecretModels == [name : {"n1"}, value : {"s1"}, description : {"d1"}]

SecretsNext ==
    \/ LoadSecrets
    \/ \E incoming \in Incomings : StoreProviderTokens(incoming)
    \/ UnsetProviderTokens
    \/ \E m \in FewSecretModels : CreateCustomSecret(m)
    \/ \E m \in FewSecretModels : UpdateCustomSecret(m.name, m.description)
    \/ \E m \in FewSecretModels : DeleteCustomSecret(m.name)
    \/ \E k \in {KeyUnset} \cup Passphrases : SetEncKey(k)

\* Records whose envelope may not open: sealed under either passphrase, whole,
\* with bytes altered at rest, or with text that is no longer base64.
DamagedFiles ==
    {<<>>}
    \cup {<<Record(pt, <<[Envelope(_derive_key(k), SealedTokens)
                            EXCEPT !.b64_ok = b64, !.intact = b64 /\ whole]>>, LegacySecrets)>> :
            pt \in {<<>>, <<LegacyTokens>>}, k \in Passphrases,
            b64 \in BOOLEAN, whole \in BOOLEAN}

\* Loads under a passphrase the operator may change, on such records.
OpenInit ==
    /\ enc_key_env \in {KeyUnset} \cup Passphrases
    /\ crypto_available \in BOOLEAN
    /\ file \in DamagedFiles
    /\ request = [op |-> "none", arg |-> <<>>]
    /\ response = [status |-> 0, body |-> <<>>]
    /\ stored = <<>>

OpenNext ==
    \/ LoadSecrets
    \/ \E k \in {KeyUnset} \cup Passphrases : SetEncKey(k)

(***************************************************************************)
(* Part 3: listing and the named-secret routes on their own                *)
(***************************************************************************)

\* A bug the listing could have: the value is returned with the name.
list_names_with_value(custom_secrets) ==
    {[name |-> n, description |-> custom_secrets[n].description,
      value |-> custom_secrets[n].secret] : n \in DOMAIN custom_secrets}

\* load_custom_secrets_names, lines 214-222: one CustomSecretWithoutValueModel per
\* item of custom_secrets.  The order of the list is the dict's, which the maps
\* here do not have: the list is taken as the set of its items.
list_names(custom_secrets) ==
    {[name |-> n, description |-> custom_secrets[n].description] : n \in DOMAIN custom_secrets}

\* GET /secrets
LoadCustomSecretsNames ==
    LET user_secrets == load(file, enc_key_env, crypto_available)
    IN IF user_secrets.value = <<>> \/ DOMAIN OrEmpty(user_secrets).custom_secrets = {}
       THEN Answer("load_custom_secrets_names", <<>>, 200, <<{}>>)
       ELSE Answer("load_custom_secrets_names", <<>>, 200,
                   <<list_names(user_secrets.value[1].custom_secrets)>>)

\* CustomSecretModel bodies of the named-secret requests.
NamedModels == [name : SecretNames, value : SecretValues, description : Descriptions]

NamedSecretsNext ==
    \/ LoadSecrets
    \/ LoadCustomSecretsNames
    \/ UnsetProviderTokens
    \/ \E m \in NamedModels : CreateCustomSecret(m)
    \/ \E n \in SecretNames, d \in Descriptions : UpdateCustomSecret(n, d)
    \/ \E n \in SecretNames : DeleteCustomSecret(n)

(***************************************************************************)
(* Part 4: two requests in flight on one namespace                         *)
(***************************************************************************)

Reqs == {"r1", "r2"}

IdleHandler ==
    [pc |-> "idle", incoming_secret |-> <<>>, existing_secrets |-> <<>>,
     status |-> 0, written |-> <<>>]

\* The bodies the two concurrent POST /secrets requests carry.
RaceModels == [name : SecretNames, value : {"s1"}, description : {"d1"}]

\* create_custom_secret, lines 254-262: the set handed to store().
updated_user_secrets(existing_secrets, incoming_secret) ==
    [existing_secrets EXCEPT !.custom_secrets =
        MapPut(existing_secrets.custom_secrets, incoming_secret.name,
               [secret |-> incoming_secret.value,
                description |-> incoming_secret.description])]

\* POST /secrets arrives.
BeginCreate(r, incoming_secret) ==
    /\ handler[r].pc = "idle"
    /\ handler' = [handler EXCEPT ![r] =
          [IdleHandler EXCEPT !.pc = "load", !.incoming_secret = <<incoming_secret>>]]
    /\ UNCHANGED <<last_store, validator_vars, secrets_vars, migration_vars, legacy_vars>>

\* create_custom_secret, lines 239-252: await secrets_store.load(), then the
\* lookup of the name in what was loaded.
HandlerLoad(r) ==
    /\ handler[r].pc = "load"
    /\ LET existing_secrets == OrEmpty(load(file, enc_key_env, crypto_available))
       IN handler' = [handler EXCEPT ![r] =
             IF handler[r].incoming_secret[1].name \in DOMAIN existing_secrets.custom_secrets
             THEN [@ EXCEPT !.pc = "done", !.status = 400]
             ELSE [@ EXCEPT !.pc = "store", !.existing_secrets = <<existing_secrets>>]]
    /\ UNCHANGED <<last_store, validator_vars, secrets_vars, migration_vars, legacy_vars>>

\* A bug store could have avoided: what would happen if the set were built from
\* the file as it is at the write, not from what the request loaded.
HandlerStore_reloads(r) ==
    /\ handler[r].pc = "store"
    /\ LET secrets == updated_user_secrets(
                          OrEmpty(load(file, enc_key_env, crypto_available)),
                          handler[r].incoming_secret[1])
           rec == store_record(secrets, enc_key_env, crypto_available, FALSE)
       IN /\ file' = <<rec>>
          /\ handler' = [handler EXCEPT ![r].pc = "done", ![r].status = 201,
                                        ![r].written = <<rec>>]
          /\ last_store' = r
    /\ UNCHANGED <<enc_key_env, crypto_available, request, response, stored,
                   validator_vars, migration_vars, legacy_vars>>

\* create_custom_secret, lines 260-273: await secrets_store.store() with the set
\* built from what this request loaded; the record replaces the file in one write.
HandlerStore(r) ==
    /\ handler[r].pc = "store"
    /\ LET secrets == updated_user_secrets(handler[r].existing_secrets[1],
                                           handler[r].incoming_secret[1])
       IN \E fault \in Faults(secrets) :
            IF fault # "write"
            THEN LET rec == store_record(secrets, enc_key_env, crypto_available,
                                         fault = "seal")
                 IN /\ file' = <<rec>>
                    /\ handler' = [handler EXCEPT ![r].pc = "done", ![r].status = 201,
                                                  ![r].written = <<rec>>]
                    /\ last_store' = r
            ELSE /\ handler' = [handler EXCEPT ![r].pc = "done", ![r].status = 500]
                 /\ UNCHANGED <<file, last_store>>
    /\ UNCHANGED <<enc_key_env, crypto_available, request, response, stored,
                   validator_vars, migration_vars, legacy_vars>>

RaceNext ==
    \E r \in Reqs :
        \/ \E m \in RaceModels : BeginCreate(r, m)
        \/ HandlerLoad(r)
        \/ HandlerStore(r)

RaceIdle ==
    /\ handler = [r \in Reqs |-> IdleHandler]
    /\ last_store = None

(***************************************************************************)
(* Part 5: scripts/migrate_encrypt_secrets.py                              *)
(***************************************************************************)

\* sorted(glob.glob(users/*/secrets.json)): the users in the order of the scan.
MigUsers == <<"u1", "u2", "u3">>
UserSet == {MigUsers[j] : j \in DOMAIN MigUsers}

\* A file open() or json.load() fails on.
Unreadable == <<[unreadable |-> TRUE]>>

OnlyEmptyTokens == [p \in {"gitlab"} |-> [token |-> "", host |-> "h1"]]

\* What a user's secrets.json can be when the tool runs: unreadable, plaintext
\* with a live token (and an entry without), plaintext without any live token,
\* or sealed already.
DirFiles ==
    {Unreadable,
     <<Record(<<LegacyTokens>>, <<>>, LegacySecrets)>>,
     <<Record(<<OnlyEmptyTokens>>, <<>>, LegacySecrets)>>,
     <<Record(<<>>, <<Envelope(_derive_key("k1"), SealedTokens)>>, LegacySecrets)>>}

IdleMigration ==
    [pc |-> "idle", i |-> 0, migrated |-> 0, skipped |-> 0, exit |-> 0,
     log |-> "", enc |-> <<>>, before |-> <<>>, prev_ok |-> FALSE]

\* main, line 51: the entries with a token.
live_tokens(data) ==
    NonEmptyTokens(IF data.provider_tokens # <<>> THEN data.provider_tokens[1] ELSE EmptyMap)

\* A bug the scan could have: no record is passed over.
needs_migration_always(data) == TRUE

\* main, lines 44-54: a record is migrated unless it has an envelope already or
\* no entry with a token.
needs_migration(data) ==
    data.provider_tokens_enc = <<>> /\ DOMAIN live_tokens(data) # {}

\* A bug the tool could have: the record is rebuilt from the envelope alone.
migrated_record_tokens_only(data, enc) ==
    [data EXCEPT !.provider_tokens_enc = <<enc>>, !.provider_tokens = <<>>,
                 !.custom_secrets = EmptyMap]

\* main, lines 70-73: the record written back.
migrated_record(data, enc) ==
    [data EXCEPT !.provider_tokens_enc = <<enc>>, !.provider_tokens = <<>>]

\* main, lines 15-33: the checks before the scan.
StartMigration ==
    /\ mig.pc \in {"idle", "exited"}
    /\ LET fresh == [IdleMigration EXCEPT
                        !.before = dir,
                        !.prev_ok = (mig.pc = "exited" /\ mig.exit = 0)]
       IN mig' = IF enc_key_env = KeyUnset
                 THEN [fresh EXCEPT !.pc = "exited", !.exit = 0, !.log = "skipping"]
                 ELSE IF ~crypto_available
                 THEN [fresh EXCEPT !.pc = "exited", !.exit = 1, !.log = "no_cryptography"]
                 ELSE [fresh EXCEPT !.pc = "read", !.i = 1]
    /\ UNCHANGED <<dir, backups, validator_vars, secrets_vars, race_vars, legacy_vars>>

\* A bug the scan could have: after a failed encryption the tool goes on to the
\* next record.
EncryptionFailed_continues(m) ==
    [m EXCEPT !.log = "error_encrypt", !.skipped = @ + 1, !.i = @ + 1]

\* main, lines 58-60: print the error and return 2.
EncryptionFailed(m) ==
    [m EXCEPT !.log = "error_encrypt", !.pc = "exited", !.exit = 2]

\* main, lines 36-60: one record is read, passed over or sealed.
ReadRecord ==
    /\ mig.pc = "read"
    /\ mig.i <= Len(MigUsers)
    /\ LET p == MigUsers[mig.i]
       IN IF dir[p] = Unreadable
          THEN mig' = [mig EXCEPT !.log = "warn_read", !.skipped = @ + 1, !.i = @ + 1]
          ELSE IF ~needs_migration(dir[p][1])
          THEN mig' = [mig EXCEPT !.skipped = @ + 1, !.i = @ + 1]
          ELSE \E primitive_fails \in BOOLEAN :
                 LET enc == _encrypt_provider_tokens(live_tokens(dir[p][1]), enc_key_env,
                                                     crypto_available, primitive_fails)
                 IN mig' = IF enc.raised
                           THEN EncryptionFailed(mig)
                           ELSE [mig EXCEPT !.pc = "backup", !.enc = enc.value]
    /\ UNCHANGED <<dir, backups, validator_vars, secrets_vars, race_vars, legacy_vars>>

\* main, lines 62-68: shutil.copy2 to the .bak-<ts> name; a failure is printed as
\* a warning and the tool goes on.
BackupRecord ==
    /\ mig.pc = "backup"
    /\ LET p == MigUsers[mig.i]
       IN \E copied \in BOOLEAN :
            IF copied
            THEN /\ backups' = [backups EXCEPT ![p] = @ \cup {dir[p]}]
                 /\ mig' = [mig EXCEPT !.pc = "write"]
            ELSE /\ backups' = backups
                 /\ mig' = [mig EXCEPT !.pc = "write", !.log = "warn_backup"]
    /\ UNCHANGED <<dir, validator_vars, secrets_vars, race_vars, legacy_vars>>

\* main, lines 70-81: the record is written back with the envelope.  open(p, 'w')
\* or json.dump can fail: the file is then as it was, or cut short.
WriteRecord ==
    /\ mig.pc = "write"
    /\ LET p == MigUsers[mig.i]
       IN \E outcome \in {"written", "not_opened", "cut_short"} :
            CASE outcome = "written" ->
                   /\ dir' = [dir EXCEPT ![p] = <<migrated_record(dir[p][1], mig.enc[1])>>]
                   /\ mig' = [mig EXCEPT !.pc = "read", !.migrated = @ + 1, !.i = @ + 1,
                                         !.enc = <<>>]
              [] outcome = "not_opened" ->
                   /\ dir' = dir
                   /\ mig' = [mig EXCEPT !.pc = "exited", !.exit = 3, !.log = "error_write",
                                         !.enc = <<>>]
              [] outcome = "cut_short" ->
                   /\ dir' = [dir EXCEPT ![p] = Unreadable]
                   /\ mig' = [mig EXCEPT !.pc = "exited", !.exit = 3, !.log = "error_write",
                                         !.enc = <<>>]
    /\ UNCHANGED <<backups, validator_vars, secrets_vars, race_vars, legacy_vars>>

\* main, lines 83-84: the scan is over.
FinishMigration ==
    /\ mig.pc = "read"
    /\ mig.i > Len(MigUsers)
    /\ mig' = [mig EXCEPT !.pc = "exited", !.exit = 0, !.log = "done"]
    /\ UNCHANGED <<dir, backups, validator_vars, secrets_vars, race_vars, legacy_vars>>

MigrationNext ==
    \/ StartMigration
    \/ ReadRecord
    \/ BackupRecord
    \/ WriteRecord
    \/ FinishMigration

MigrationIdle ==
    /\ dir = [u \in UserSet |-> Unreadable]
    /\ backups = [u \in UserSet |-> {}]
    /\ mig = IdleMigration

MigrationInit ==
    /\ dir \in [UserSet -> DirFiles]
    /\ backups = [u \in UserSet |-> {}]
    /\ mig = IdleMigration

(***************************************************************************)
(* Part 6: the move of provider tokens from the settings to the secrets    *)
(***************************************************************************)

\* No call yet.  found and outcome are of the last call; found_before and
\* completed_before say that some call before the last one found tokens in the
\* settings, and that some call before the last one found tokens and returned.
IdleLegacy ==
    [outcome |-> "no_call", found |-> FALSE, wrote_secrets |-> FALSE, wrote_settings |-> FALSE,
     found_before |-> FALSE, completed_before |-> FALSE]

\* The call after the last one: what the last one did is now in the past.
next_call(l) ==
    [IdleLegacy EXCEPT
        !.found_before = l.found_before \/ l.found,
        !.completed_before = l.completed_before \/ l.outcome = "returned_secrets"]

\* A bug the function could have: the settings are stored as they were.
InvalidateLegacySecretsStore_keeps_settings ==
    LET user_secrets == UserSecrets(settings, EmptyMap)
        this == next_call(legacy)
    IN /\ UNCHANGED <<enc_key_env, crypto_available, request, response,
                      validator_vars, race_vars, migration_vars>>
       /\ IF DOMAIN settings = {}
          THEN /\ legacy' = [this EXCEPT !.outcome = "returned_none"]
               /\ UNCHANGED <<file, stored, settings>>
          ELSE \E fault \in Faults(user_secrets) \cup {"settings_write"} :
                 IF fault = "write"
                 THEN /\ legacy' = [this EXCEPT !.outcome = "raised", !.found = TRUE]
                      /\ stored' = <<>>
                      /\ UNCHANGED <<file, settings>>
                 ELSE /\ file' = <<store_record(user_secrets, enc_key_env, crypto_available,
                                                fault = "seal")>>
                      /\ stored' = <<user_secrets>>
                      /\ settings' = settings
                      /\ IF fault = "settings_write"
                         THEN legacy' = [this EXCEPT !.outcome = "raised", !.found = TRUE,
                                                     !.wrote_secrets = TRUE]
                         ELSE legacy' = [this EXCEPT !.outcome = "returned_secrets",
                                                     !.found = TRUE, !.wrote_secrets = TRUE,
                                                     !.wrote_settings = TRUE]

\* invalidate_legacy_secrets_store, called with the settings as persisted.  With
\* provider tokens in the settings it stores a UserSecrets made of them, then
\* stores the settings with an empty secrets_store, and returns the UserSecrets;
\* an exception of either store leaves the function where it was raised.
\* Without provider tokens it returns None.
InvalidateLegacySecretsStore ==
    LET user_secrets == UserSecrets(settings, EmptyMap)
        this == next_call(legacy)
    IN /\ UNCHANGED <<enc_key_env, crypto_available, request, response,
                      validator_vars, race_vars, migration_vars>>
       /\ IF DOMAIN settings = {}
          THEN /\ legacy' = [this EXCEPT !.outcome = "returned_none"]
               /\ UNCHANGED <<file, stored, settings>>
          ELSE \E fault \in Faults(user_secrets) \cup {"settings_write"} :
                 IF fault = "write"
                 THEN /\ legacy' = [this EXCEPT !.outcome = "raised", !.found = TRUE]
                      /\ stored' = <<>>
                      /\ UNCHANGED <<file, settings>>
                 ELSE /\ file' = <<store_record(user_secrets, enc_key_env, crypto_available,
                                                fault = "seal")>>
                      /\ stored' = <<user_secrets>>
                      /\ IF fault = "settings_write"
                         THEN /\ settings' = settings
                              /\ legacy' = [this EXCEPT !.outcome = "raised", !.found = TRUE,
                                                        !.wrote_secrets = TRUE]
                         ELSE /\ settings' = EmptyMap
                              /\ legacy' = [this EXCEPT !.outcome = "returned_secrets",
                                                        !.found = TRUE, !.wrote_secrets = TRUE,
                                                        !.wrote_settings = TRUE]

\* The provider tokens an older release kept in the settings, if any.
LegacySettings == {EmptyMap, LegacyTokens, SealedTokens}

LegacyIdle ==
    /\ settings = EmptyMap
    /\ legacy = IdleLegacy

LegacyInit ==
    /\ settings \in LegacySettings
    /\ legacy = IdleLegacy

LegacyNext ==
    \/ InvalidateLegacySecretsStore
    \/ LoadSecrets

(***************************************************************************)
(* Specifications                                                          *)
(***************************************************************************)

\* The validator at rest while the secrets handlers run, and the other way round.
ValidatorIdle ==
    /\ validator_cls_env = EnvUnset
    /\ jwt_secret = NoSecret
    /\ metadata_store = EmptyMap
    /\ now = 0
    /\ call = [p \in Calls |-> IdleCall]

SecretsIdle ==
    /\ enc_key_env = KeyUnset
    /\ crypto_available = TRUE
    /\ file = <<>>
    /\ request = [op |-> "none", arg |-> <<>>]
    /\ response = [status |-> 0, body |-> <<>>]
    /\ stored = <<>>

Init == ValidatorInit /\ SecretsInit /\ RaceIdle /\ MigrationInit /\ LegacyInit
Next ==
    \/ ValidatorNext \/ SecretsNext \/ NamedSecretsNext \/ RaceNext \/ MigrationNext
    \/ LegacyNext
\* The whole program: requests to the validator and to the secrets routes, and
\* the migration tool.
Spec == Init /\ [][Next]_vars

\* The secrets routes alone.
SecretsOnlyInit == SecretsInit /\ ValidatorIdle /\ RaceIdle /\ MigrationIdle /\ LegacyIdle

\* invalidate_legacy_secrets_store alone, called any number of times.
LegacyOnlyInit == SecretsInit /\ ValidatorIdle /\ RaceIdle /\ MigrationIdle /\ LegacyInit
LegacySpec == LegacyOnlyInit /\ [][LegacyNext]_vars
SecretsSpec == SecretsOnlyInit /\ [][SecretsNext]_vars

\* Loads alone, on records that may be damaged.
OpenOnlyInit == OpenInit /\ ValidatorIdle /\ RaceIdle /\ MigrationIdle /\ LegacyIdle
OpenSpec == OpenOnlyInit /\ [][OpenNext]_vars

\* The named-secret routes and the listing alone.
NamedSecretsSpec == SecretsOnlyInit /\ [][NamedSecretsNext]_vars

\* Two POST /secrets requests interleaving at their awaits.
RaceSpec == SecretsOnlyInit /\ [][RaceNext]_vars

\* The migration tool alone, run any number of times under one configuration.
MigrationOnlyInit ==
    /\ enc_key_env \in {KeyUnset, "k1"}
    /\ crypto_available \in BOOLEAN
    /\ file = <<>>
    /\ request = [op |-> "none", arg |-> <<>>]
    /\ response = [status |-> 0, body |-> <<>>]
    /\ stored = <<>>
    /\ ValidatorIdle /\ RaceIdle /\ MigrationInit /\ LegacyIdle
MigrationSpec == MigrationOnlyInit /\ [][MigrationNext]_vars

\* The validator alone, its calls interleaving at their awaits.
ValidatorOnlyInit == ValidatorInit /\ SecretsIdle /\ RaceIdle /\ MigrationIdle /\ LegacyIdle
ValidatorSpec == ValidatorOnlyInit /\ [][ValidatorNext]_vars
\* The validator alone, one request at a time.
ValidatorSeqSpec == ValidatorOnlyInit /\ [][ValidatorSeqNext]_vars

(***************************************************************************)
(* Properties of the validator                                             *)
(***************************************************************************)

validator_cls == create_conversation_validator(validator_cls_env)
DoneCalls == {p \in Calls : call[p].pc = "done"}
\* The record _ensure_metadata_exists handed to validate() in call p.
SeenMetadata(p) == call[p].metadata[1]
\* Records that exist when the run starts carry time 0, those created in it a later one.
CreatedInRun(c) == has_metadata(metadata_store, c) /\ metadata_store[c].last_updated_at >= 1

\* C1: the cookie validator denies a caller whose identity (possibly None) differs
\* from the non-None owner of the metadata it obtained, and returns the caller's
\* identity when the caller is the owner.
C1_OwnershipEnforced ==
    validator_cls = CookieCls =>
        \A p \in DoneCalls :
            /\ (SeenMetadata(p).user_id # None /\ call[p].user_id # SeenMetadata(p).user_id)
                  => call[p].result = Denied
            /\ call[p].user_id = SeenMetadata(p).user_id
                  => call[p].result = Returned(call[p].user_id)

\* Both cases side by side: the owner was let in, an anonymous caller was refused.
C1_Witness ==
    /\ validator_cls = CookieCls
    /\ \E p, q \in DoneCalls :
          /\ SeenMetadata(p).user_id = "alice" /\ call[p].user_id = "alice"
          /\ call[p].result = Returned("alice")
          /\ SeenMetadata(q).user_id = "alice" /\ call[q].user_id = None
          /\ call[q].result = Denied

\* C2: with one request at a time, a call with identity c on an id without record
\* creates the record with owner c and returns c, and every later call on that id
\* by a caller who is not c, an anonymous one included, is denied.
C2_FirstCallerBindsOwnership ==
    validator_cls = CookieCls =>
        /\ \A p \in Calls :
              (call[p].created /\ call[p].user_id # None) =>
                  /\ call[p].pc \in {"reread", "return", "done"}
                  /\ has_metadata(metadata_store, call[p].conversation_id)
                  /\ metadata_store[call[p].conversation_id].user_id = call[p].user_id
                  /\ call[p].pc = "done" => call[p].result = Returned(call[p].user_id)
        /\ \A q \in DoneCalls :
              LET c == call[q].conversation_id
              IN (CreatedInRun(c) /\ metadata_store[c].user_id # None
                     /\ call[q].user_id # metadata_store[c].user_id)
                    => call[q].result = Denied

\* carol's case: the creator returned with her identity, a later stranger was denied.
C2_Witness ==
    /\ validator_cls = CookieCls
    /\ \E p, q \in DoneCalls :
          /\ call[p].created /\ call[p].user_id = "alice"
          /\ call[p].result = Returned("alice")
          /\ call[q].conversation_id = call[p].conversation_id
          /\ ~call[q].created /\ call[q].user_id = "bob"
          /\ call[q].result = Denied

\* C3: two concurrent calls that both found no record for the same id, both with
\* a non-None identity, never both succeed with different identities.
C3_NoCrossTenantAccess ==
    validator_cls = CookieCls =>
        \A p, q \in DoneCalls :
            (/\ call[p].conversation_id = call[q].conversation_id
             /\ call[p].created /\ call[q].created
             /\ call[p].user_id # None /\ call[q].user_id # None
             /\ call[p].result.kind = "ok" /\ call[q].result.kind = "ok")
                => call[p].result.user_id = call[q].result.user_id

\* C4: whichever class create_conversation_validator returns, a finished call was
\* denied when the metadata's non-None owner is not the caller, and otherwise
\* returned the caller's own identity.
C4_EveryValidatorHonoursContract ==
    \A p \in DoneCalls :
        /\ (SeenMetadata(p).user_id # None /\ call[p].user_id # SeenMetadata(p).user_id)
              => call[p].result = Denied
        /\ call[p].result.kind = "ok" => call[p].result.user_id = call[p].user_id

\* C5: no step of validate() changes or re-creates a record that exists.
C5_ExistingRecordUntouched ==
    [][\A c \in DOMAIN metadata_store :
          /\ c \in DOMAIN metadata_store'
          /\ metadata_store'[c] = metadata_store[c]]_vars

(***************************************************************************)
(* Properties of the secrets store and its handlers                        *)
(***************************************************************************)

Loaded == load(file, enc_key_env, crypto_available)
LoadedTokens == OrEmpty(Loaded).provider_tokens

\* The provider tokens a record holds, sealed or not.
PersistedTokens(rec) ==
    IF rec.provider_tokens_enc # <<>> THEN rec.provider_tokens_enc[1].tokens
    ELSE IF rec.provider_tokens # <<>> THEN rec.provider_tokens[1]
    ELSE EmptyMap

\* The step is a store_provider_tokens request that was answered 200.
ProviderTokensStored ==
    request'.op = "store_provider_tokens" /\ response'.status = 200

\* The step sets or unsets the token of provider p on request.
ExplicitlyReplaced(p) ==
    /\ response'.status = 200
    /\ \/ request'.op = "unset_provider_tokens"
       \/ /\ request'.op = "store_provider_tokens"
          /\ p \in Named(request'.arg)
          /\ ItemFor(request'.arg, p).token # ""

\* The credentials load returned before the step are returned after it, unless
\* the step replaced or unset them.
CredentialsKept ==
    \A p \in DOMAIN LoadedTokens :
        \/ ExplicitlyReplaced(p)
        \/ /\ p \in DOMAIN LoadedTokens'
           /\ LoadedTokens'[p].token = LoadedTokens[p].token

\* The step changes the passphrase from a set value to another value or to unset.
KeyLossStep == enc_key_env # KeyUnset /\ enc_key_env' # enc_key_env

\* C6 as stated: over every step, changes of the passphrase of any kind included,
\* a credential that load returned is still returned unless the step replaced or
\* unset it.
C6_NeverDiscarded == [][CredentialsKept]_vars

\* C6 as amended: the same over every step except a change of the passphrase from
\* a set value to another value or to unset; a change from unset to set keeps
\* the credentials.
C6_KeptUnlessKeyLost == [][~KeyLossStep => CredentialsKept]_vars

\* The passphrase has just been set for the first time and the credential of the
\* plaintext record is still returned.
C6_Witness ==
    /\ request.op = "set_enc_key" /\ request.arg.from = KeyUnset
    /\ crypto_available
    /\ file # <<>> /\ file[1].provider_tokens # <<>> /\ file[1].provider_tokens_enc = <<>>
    /\ "github" \in DOMAIN LoadedTokens /\ LoadedTokens["github"].token = "t1"

\* C7: after a store_provider_tokens answered 200, a provider named by the update
\* and present in the loaded set is persisted with the incoming token if that is
\* non-empty, else the existing one, and likewise for the host; a provider absent
\* from the loaded set is persisted as sent.
C7_MergeRule ==
    [][ProviderTokensStored =>
          LET existing == LoadedTokens
              incoming == request'.arg
              persisted == PersistedTokens(file'[1])
          IN \A p \in Named(incoming) :
                LET item == ItemFor(incoming, p)
                IN /\ p \in DOMAIN persisted
                   /\ IF p \in DOMAIN existing
                      THEN /\ persisted[p].token =
                                IF item.token # "" THEN item.token ELSE existing[p].token
                           /\ persisted[p].host =
                                IF item.host # "" THEN item.host ELSE existing[p].host
                      ELSE persisted[p] = [token |-> item.token, host |-> item.host]]_vars

\* The example of the specification: {token a, host h1} updated with
\* {token "", host h2} is persisted as {token a, host h2}.
C7_Witness ==
    /\ request.op = "store_provider_tokens" /\ response.status = 200
    /\ request.arg = <<[provider |-> "github", token |-> "", host |-> "h2"]>>
    /\ PersistedTokens(file[1])["github"] = [token |-> "t1", host |-> "h2"]

\* C8: after a store_provider_tokens answered 200, every provider of the loaded
\* set that the update does not name is persisted with the token and host it had.
C8_MergeAdditive ==
    [][ProviderTokensStored =>
          \A p \in DOMAIN LoadedTokens \ Named(request'.arg) :
              /\ p \in DOMAIN PersistedTokens(file'[1])
              /\ PersistedTokens(file'[1])[p] = LoadedTokens[p]]_vars

\* An update of gitlab alone left the github credential in the record.
C8_Witness ==
    /\ request.op = "store_provider_tokens" /\ response.status = 200
    /\ request.arg = <<[provider |-> "gitlab", token |-> "t1", host |-> "h1"]>>
    /\ DOMAIN PersistedTokens(file[1]) = {"github", "gitlab"}
    /\ PersistedTokens(file[1])["github"] = [token |-> "t2", host |-> "h2"]

\* The record has an envelope and it cannot be opened with the configuration.
CannotOpen ==
    /\ file # <<>>
    /\ file[1].provider_tokens_enc # <<>>
    /\ _decrypt_provider_tokens(file[1].provider_tokens_enc[1], enc_key_env,
                                crypto_available).raised

C10_EmptyTokenNeverPresent ==
    stored # <<>> =>
        /\ Loaded.value # <<>>
        /\ \A p \in DOMAIN stored[1].provider_tokens :
              IF stored[1].provider_tokens[p].token = ""
              THEN p \notin DOMAIN LoadedTokens
              ELSE /\ p \in DOMAIN LoadedTokens
                   /\ LoadedTokens[p] = stored[1].provider_tokens[p]

\* A set with a token for one provider and an empty one for the other went into
\* an envelope.
C10_Witness ==
    /\ stored # <<>>
    /\ file[1].provider_tokens_enc # <<>>
    /\ \E p, q \in DOMAIN stored[1].provider_tokens :
          /\ stored[1].provider_tokens[p].token = ""
          /\ stored[1].provider_tokens[q].token # ""

\* The record has both the plaintext and the sealed provider tokens.
HasBothFields(rec) == rec.provider_tokens # <<>> /\ rec.provider_tokens_enc # <<>>

\* C11: the record a store call writes never has both the envelope and the
\* plaintext provider tokens, and with a key, the crypto primitive and a sealing
\* that succeeds it has no plaintext provider tokens at all.
C11_NeverBothFields ==
    stored # <<>> =>
        /\ file # <<>>
        /\ ~HasBothFields(file[1])
        /\ file[1] \in {store_record(stored[1], enc_key_env, crypto_available, f) :
                            f \in BOOLEAN}
        /\ \A primitive_fails \in BOOLEAN :
              LET rec == store_record(stored[1], enc_key_env, crypto_available,
                                      primitive_fails)
              IN /\ ~HasBothFields(rec)
                 /\ (_derive_key(enc_key_env) # NoKey /\ crypto_available /\ ~primitive_fails)
                       => rec.provider_tokens = <<>>

\* A set with a live token was stored under a key: the record has the envelope
\* and no plaintext field.
C11_Witness ==
    /\ stored # <<>>
    /\ \E p \in DOMAIN stored[1].provider_tokens : stored[1].provider_tokens[p].token # ""
    /\ file[1].provider_tokens_enc # <<>>
    /\ file[1].provider_tokens = <<>>

(***************************************************************************)
(* Properties of two requests in flight                                    *)
(***************************************************************************)

\* C12: without any lock, the file is always one whole record, and once a store
\* has completed it is exactly the record of the store that completed last: the
\* set that request loaded with its own secret added, whatever the other request
\* wrote in between.
C12_LastWriterWins ==
    /\ \A r \in Reqs : handler[r].status = 201 => handler[r].written # <<>>
    /\ last_store # None =>
          LET h == handler[last_store]
              secrets == updated_user_secrets(h.existing_secrets[1], h.incoming_secret[1])
          IN /\ h.status = 201
             /\ file = h.written
             /\ file[1].custom_secrets = secrets.custom_secrets
             /\ file[1] \in {store_record(secrets, enc_key_env, crypto_available, f) :
                                 f \in BOOLEAN}

\* Both requests were answered 201 and the secret of the first writer is gone.
C12_Witness ==
    /\ \A r \in Reqs : handler[r].pc = "done" /\ handler[r].status = 201
    /\ \E r \in Reqs :
          /\ r # last_store
          /\ handler[r].incoming_secret[1].name \notin DOMAIN file[1].custom_secrets
          /\ handler[last_store].incoming_secret[1].name \in DOMAIN file[1].custom_secrets

(***************************************************************************)
(* Properties of the named-secret routes                                   *)
(***************************************************************************)

\* The named secrets in the byte store.
PersistedSecrets(f) == IF f = <<>> THEN EmptyMap ELSE f[1].custom_secrets

\* C13: create_custom_secret with a name the user's named secrets have is answered
\* 400 and writes nothing, so that secret keeps its value and description; with a
\* new name it writes the named secrets with exactly that one added (or, when the
\* write fails, answers 500 and writes nothing).
C13_NameUniqueness ==
    [][request'.op = "create_custom_secret" =>
          LET custom_secrets == PersistedSecrets(file)
              m == request'.arg
          IN IF m.name \in DOMAIN custom_secrets
             THEN response'.status = 400 /\ file' = file
             ELSE \/ /\ response'.status = 201
                     /\ PersistedSecrets(file') =
                           MapPut(custom_secrets, m.name,
                                  [secret |-> m.value, description |-> m.description])
                  \/ response'.status = 500 /\ file' = file]_vars

\* A second create of n1 with another value was refused and the first value stayed.
C13_Witness ==
    /\ request.op = "create_custom_secret" /\ response.status = 400
    /\ request.arg = [name |-> "n1", value |-> "s2", description |-> ""]
    /\ PersistedSecrets(file)["n1"] = [secret |-> "s1", description |-> "d1"]

\* C14: update_custom_secret on an absent name is answered 404 and writes nothing;
\* on a present name it writes the named secrets with only that secret's
\* description replaced (or, when the write fails, answers 500 and writes nothing).
C14_UpdateDescriptionOnly ==
    [][request'.op = "update_custom_secret" =>
          LET custom_secrets == PersistedSecrets(file)
              secret_id == request'.arg.secret_id
          IN IF secret_id \notin DOMAIN custom_secrets
             THEN response'.status = 404 /\ file' = file
             ELSE \/ /\ response'.status = 200
                     /\ PersistedSecrets(file') =
                           [n \in DOMAIN custom_secrets |->
                               IF n = secret_id
                               THEN [secret |-> custom_secrets[n].secret,
                                     description |-> request'.arg.description]
                               ELSE custom_secrets[n]]
                  \/ response'.status = 500 /\ file' = file]_vars

\* The description of n1 was cleared; its value and the secret n2 are as before.
C14_Witness ==
    /\ request.op = "update_custom_secret" /\ response.status = 200
    /\ request.arg = [secret_id |-> "n1", description |-> ""]
    /\ DOMAIN PersistedSecrets(file) = {"n1", "n2"}
    /\ PersistedSecrets(file)["n1"] = [secret |-> "s1", description |-> ""]
    /\ PersistedSecrets(file)["n2"] = [secret |-> "s2", description |-> "d1"]

\* C15: delete_custom_secret on an absent name, or without any record, is answered
\* 404 and writes nothing; on a present name it writes the named secrets without
\* that one (or, when the write fails, answers 500 and writes nothing).
C15_DeleteExactlyOne ==
    [][request'.op = "delete_custom_secret" =>
          LET custom_secrets == PersistedSecrets(file)
              secret_id == request'.arg
          IN IF file = <<>> \/ secret_id \notin DOMAIN custom_secrets
             THEN response'.status = 404 /\ file' = file
             ELSE \/ /\ response'.status = 200
                     /\ PersistedSecrets(file') = MapRemove(custom_secrets, secret_id)
                  \/ response'.status = 500 /\ file' = file]_vars

\* n1 was deleted and n2 is still there.
C15_Witness ==
    /\ request.op = "delete_custom_secret" /\ response.status = 200
    /\ request.arg = "n1"
    /\ DOMAIN PersistedSecrets(file) = {"n2"}
    /\ PersistedSecrets(file)["n2"] = [secret |-> "s2", description |-> "d1"]

\* The named secrets with their values replaced by those of v.
WithValues(custom_secrets, v) ==
    [n \in DOMAIN custom_secrets |->
        [secret |-> v[n], description |-> custom_secrets[n].description]]

\* C16: the listing answers one (name, description) pair for each stored named
\* secret and nothing else, no value among them: the same stored set with any
\* other values gives the same answer.
C16_ListHidesValues ==
    request.op = "load_custom_secrets_names" =>
        LET custom_secrets == PersistedSecrets(file)
            listed == response.body[1]
        IN /\ response.status = 200
           /\ Cardinality(listed) = Cardinality(DOMAIN custom_secrets)
           /\ \A n \in DOMAIN custom_secrets :
                 [name |-> n, description |-> custom_secrets[n].description] \in listed
           /\ \A e \in listed : DOMAIN e = {"name", "description"}
           /\ \A v \in [DOMAIN custom_secrets -> SecretValues] :
                 list_names(WithValues(custom_secrets, v)) = listed

\* Two secrets with different values were listed.
C16_Witness ==
    /\ request.op = "load_custom_secrets_names"
    /\ DOMAIN PersistedSecrets(file) = {"n1", "n2"}
    /\ PersistedSecrets(file)["n1"].secret = "s1"
    /\ PersistedSecrets(file)["n2"].secret = "s2"
    /\ Cardinality(response.body[1]) = 2

(***************************************************************************)
(* Properties of the migration tool                                        *)
(***************************************************************************)

\* C17: a run that follows a run which ended with status 0, under the same key
\* configuration, changes no record, makes no backup and counts migrated = 0.
C17_MigrationIdempotent ==
    [][mig.prev_ok => (dir' = dir /\ backups' = backups /\ mig'.migrated = 0)]_vars

\* The second run is over: it passed over all three records, one of which the
\* first run had sealed.
C17_Witness ==
    /\ mig.prev_ok /\ mig.pc = "exited" /\ mig.log = "done"
    /\ mig.migrated = 0 /\ mig.skipped = Len(MigUsers)
    /\ \E u \in UserSet :
          /\ dir[u] # Unreadable
          /\ dir[u][1].provider_tokens_enc =
                <<Envelope(_derive_key(enc_key_env), NonEmptyTokens(LegacyTokens))>>

\* C18: a record changes only when a backup copy of what it was exists; a record
\* whose backup failed is not overwritten.
C18_BackupBeforeOverwrite ==
    [][\A u \in UserSet : dir'[u] # dir[u] => dir[u] \in backups[u]]_vars

\* The record as the tool writes it back when the seal succeeds.
MigratedForm(content) ==
    <<migrated_record(content[1],
                      Envelope(_derive_key(enc_key_env), live_tokens(content[1])))>>

\* C19: after an encryption failure the tool has stopped with status 2, the
\* record it failed on and all later ones are as they were when the run began,
\* and each earlier one is as it was or in its migrated form, as many migrated as
\* the tool counted.
C19_EncryptionFailureFatal ==
    mig.log = "error_encrypt" =>
        /\ mig.pc = "exited" /\ mig.exit = 2
        /\ \A j \in DOMAIN MigUsers :
              LET u == MigUsers[j]
              IN IF j >= mig.i
                 THEN dir[u] = mig.before[u]
                 ELSE \/ dir[u] = mig.before[u] /\ (dir[u] = Unreadable \/ ~needs_migration(dir[u][1]))
                      \/ /\ mig.before[u] # Unreadable
                         /\ needs_migration(mig.before[u][1])
                         /\ dir[u] = MigratedForm(mig.before[u])
        /\ mig.migrated =
              Cardinality({j \in DOMAIN MigUsers : dir[MigUsers[j]] # mig.before[MigUsers[j]]})

\* The first record was migrated, the seal of the second failed, the third is
\* still in plaintext.
C19_Witness ==
    /\ mig.log = "error_encrypt" /\ mig.exit = 2
    /\ mig.i = 2 /\ mig.migrated = 1
    /\ dir["u1"] # mig.before["u1"]
    /\ dir["u3"] # Unreadable /\ needs_migration(dir["u3"][1])

(***************************************************************************)
(* Properties of the envelope                                              *)
(***************************************************************************)

\* The payloads the round trip is tried on: every set of provider tokens.
RoundTripPayloads == UNION {[D -> ProviderTokens] : D \in SUBSET Providers}

PlaintextRecord(secrets) ==
    Record(<<secrets.provider_tokens>>, <<>>, secrets.custom_secrets)

\* C21: without a key, or without the crypto primitive, or when the seal raises,
\* store still writes the record, once and whole, with the provider tokens in the
\* plaintext field, and the handler answers as for any store.
C21_PlaintextFallback ==
    stored # <<>> =>
        /\ response.status \in {200, 201}
        /\ (_derive_key(enc_key_env) = NoKey \/ ~crypto_available)
              => file = <<PlaintextRecord(stored[1])>>
        /\ (DOMAIN stored[1].provider_tokens # {} /\ file[1].provider_tokens_enc = <<>>)
              => file = <<PlaintextRecord(stored[1])>>
        /\ DOMAIN stored[1].provider_tokens # {}
              => store_record(stored[1], enc_key_env, crypto_available, TRUE) =
                    PlaintextRecord(stored[1])

\* Key and primitive were there, the seal raised, and the token went to the file
\* in plaintext.
C21_Witness ==
    /\ stored # <<>>
    /\ _derive_key(enc_key_env) # NoKey /\ crypto_available
    /\ file[1].provider_tokens # <<>>
    /\ file[1].provider_tokens_enc = <<>>
    /\ \E p \in DOMAIN file[1].provider_tokens[1] : file[1].provider_tokens[1][p].token # ""

\* C23: a load when no record exists answers none without an error, and there
\* is still no record afterwards.
C23_LoadOfNothing ==
    [][(request'.op = "load" /\ file = <<>>)
          => /\ load(file, enc_key_env, crypto_available) = [raised |-> FALSE, value |-> <<>>]
             /\ response' = [status |-> 200, body |-> <<>>]
             /\ file' = <<>>]_vars

\* A load was answered on an empty store.
C23_Witness ==
    /\ request.op = "load"
    /\ file = <<>>
    /\ response = [status |-> 200, body |-> <<>>]

\* C28: an unset_provider_tokens request that succeeds leaves a record with no
\* provider token at all and with the named secrets it had before.
C28_UnsetKeepsNamedSecrets ==
    [][(request'.op = "unset_provider_tokens" /\ response'.status = 200)
          => /\ file' # <<>>
             /\ PersistedTokens(file'[1]) = EmptyMap
             /\ PersistedSecrets(file') = PersistedSecrets(file)]_vars

\* The step is a create, update or delete of a named secret that succeeded.
NamedSecretMutated ==
    /\ request'.op \in {"create_custom_secret", "update_custom_secret", "delete_custom_secret"}
    /\ response'.status \in {200, 201}

\* C30: across a successful create, update or delete of a named secret, load
\* returns the same provider tokens after it as before it.
C30_NamedMutationsKeepTokens ==
    [][NamedSecretMutated => LoadedTokens' = LoadedTokens]_vars

\* A named secret was created and a usable provider token is still loaded.
C30_Witness ==
    /\ request.op = "create_custom_secret"
    /\ response.status = 201
    /\ \E p \in DOMAIN LoadedTokens : LoadedTokens[p].token # ""
    /\ request.arg.name \in DOMAIN PersistedSecrets(file)

\* C29: whatever the order of the incoming entries, when one of them has a
\* non-empty token that fails validation the check returns an error message, so
\* store_provider_tokens answers 401 and writes nothing.
C29_RejectsOnAnyInvalidToken ==
    \A incoming \in Incomings :
        \A verdicts \in VerdictsFor(incoming, LoadedTokens) :
            (\E i \in DOMAIN incoming :
                incoming[i].token # "" /\ ~verdicts[i].token_ok)
               => check_provider_tokens(incoming, LoadedTokens, verdicts) # ""

\* The record of user u was migrated in this run: it needed migration when the
\* run began and is not what it was.
MigratedInRun(u) ==
    /\ mig.before[u] # Unreadable
    /\ needs_migration(mig.before[u][1])
    /\ dir[u] # mig.before[u]
    /\ dir[u] # Unreadable

\* C27: during and after a run, every record is what it was when the run began,
\* or was migrated, or is the one record whose write failed (the run then ended
\* with status 3).  Load of a migrated record under the run's key returns exactly
\* the entries that had a token in the plaintext record, with the named secrets
\* it had; the named secrets in the file are the same; as many records are
\* migrated as the tool counted.
C27_MigrationPreservesContent ==
    mig.pc # "idle" =>
        /\ \A j \in DOMAIN MigUsers :
              LET u == MigUsers[j]
                  was == mig.before[u]
              IN \/ dir[u] = was
                 \/ /\ j < mig.i \/ (j = mig.i /\ mig.pc = "exited")
                    /\ MigratedInRun(u)
                    /\ load(dir[u], enc_key_env, crypto_available) =
                          [raised |-> FALSE,
                           value |-> <<UserSecrets(live_tokens(was[1]), was[1].custom_secrets)>>]
                    /\ dir[u][1].custom_secrets = was[1].custom_secrets
                    /\ dir[u][1].provider_tokens = <<>>
                 \/ /\ j = mig.i /\ mig.exit = 3
                    /\ needs_migration(was[1])
                    /\ dir[u] = Unreadable
        /\ Cardinality({u \in UserSet : MigratedInRun(u)}) = mig.migrated

\* The run is over: one record was migrated and loads with its live token, and a
\* record without any live token was passed over.
C27_Witness ==
    /\ mig.pc = "exited" /\ mig.log = "done"
    /\ \E u \in UserSet :
          /\ MigratedInRun(u)
          /\ DOMAIN OrEmpty(load(dir[u], enc_key_env, crypto_available)).provider_tokens # {}
          /\ DOMAIN dir[u][1].custom_secrets # {}
    /\ \E u \in UserSet :
          /\ dir[u] = <<Record(<<OnlyEmptyTokens>>, <<>>, LegacySecrets)>>
          /\ dir[u] = mig.before[u]

(***************************************************************************)
(* More properties of the validator                                        *)
(***************************************************************************)

\* The identity validate() resolves for a request without any session cookie.
AnonymousId == resolve_user_id(validator_cls, NoCookie, jwt_secret)

\* C24: with one request at a time, a call whose session token was rejected goes
\* exactly as a call without cookie does: it carries the identity of the call
\* without cookie (None), the record it creates is the ownerless one that call
\* creates, and it ends with the outcome that call has on the same metadata.
C24_RejectedTokenIsNoToken ==
    \A p \in Calls :
        call[p].rejected =>
            /\ AnonymousId = None
            /\ call[p].user_id = AnonymousId
            /\ (call[p].created /\ call[p].pc \in {"reread", "return", "done"}) =>
                  LET c == call[p].conversation_id
                  IN /\ has_metadata(metadata_store, c)
                     /\ metadata_store[c] =
                           new_metadata(c, AnonymousId, metadata_store[c].last_updated_at)
            /\ call[p].pc = "done" =>
                  call[p].result = validate_outcome(validator_cls, AnonymousId, SeenMetadata(p))

\* With the cookie validator, one call with a rejected token was denied on an
\* owned conversation and another one created an ownerless record and got None.
C24_Witness ==
    /\ validator_cls = CookieCls
    /\ jwt_secret # NoSecret
    /\ \E p, q \in DoneCalls :
          /\ call[p].rejected /\ ~call[p].created
          /\ SeenMetadata(p).user_id = "alice"
          /\ call[p].result = Denied
          /\ call[q].rejected /\ call[q].created
          /\ call[q].result = Returned(None)

\* A finished call that was handed ownerless metadata succeeded with the caller's
\* own identity.
OwnerlessAdmitsAll ==
    \A p \in DoneCalls :
        SeenMetadata(p).user_id = None => call[p].result = Returned(call[p].user_id)

\* C25: a call that is handed ownerless metadata succeeds with the caller's own
\* identity, and no step of validate() gives an owner to a record that has none.
C25_OwnerlessStaysOwnerless ==
    [][/\ OwnerlessAdmitsAll'
       /\ \A c \in DOMAIN metadata_store :
             metadata_store[c].user_id = None =>
                 /\ c \in DOMAIN metadata_store'
                 /\ metadata_store'[c].user_id = None]_vars

(***************************************************************************)
(* Properties of the opening of envelopes                                  *)
(***************************************************************************)

\* The record of the file with its envelope replaced.
WithEnvelope(enc) == <<[file[1] EXCEPT !.provider_tokens_enc = <<enc>>]>>

\* The envelope of the file as it would be if sealed under another passphrase,
\* and as it would be if damaged: bytes altered, or text that is not base64.
SealedUnderOther(enc) ==
    {[enc EXCEPT !.sealed_with = _derive_key(k), !.b64_ok = TRUE, !.intact = TRUE] :
        k \in {q \in Passphrases : q # enc_key_env}}
Damaged(enc) ==
    {[enc EXCEPT !.b64_ok = TRUE, !.intact = FALSE],
     [enc EXCEPT !.b64_ok = FALSE, !.intact = FALSE]}

\* C22: for a record with an envelope, the variant sealed under another key and
\* the variant with a damaged envelope fail to open with the same kind of
\* failure, and load returns the same for both.
C22_WrongKeyAsCorrupted ==
    (file # <<>> /\ _derive_key(enc_key_env) # NoKey /\ crypto_available) =>
        \A w \in SealedUnderOther(file[1].provider_tokens_enc[1]) :
            \A d \in Damaged(file[1].provider_tokens_enc[1]) :
                LET open_w == _decrypt_provider_tokens(w, enc_key_env, crypto_available)
                    open_d == _decrypt_provider_tokens(d, enc_key_env, crypto_available)
                IN /\ open_w.raised /\ open_d.raised
                   /\ open_w.error = open_d.error
                   /\ load(WithEnvelope(w), enc_key_env, crypto_available) =
                         load(WithEnvelope(d), enc_key_env, crypto_available)

\* What holds of the code: both variants fail to open, and load returns the same
\* result for both, without provider tokens and with the named secrets.
DamagedLoadsAlike ==
    (file # <<>> /\ _derive_key(enc_key_env) # NoKey /\ crypto_available) =>
        \A w \in SealedUnderOther(file[1].provider_tokens_enc[1]) :
            \A d \in Damaged(file[1].provider_tokens_enc[1]) :
                /\ _decrypt_provider_tokens(w, enc_key_env, crypto_available).raised
                /\ _decrypt_provider_tokens(d, enc_key_env, crypto_available).raised
                /\ load(WithEnvelope(w), enc_key_env, crypto_available) =
                      load(WithEnvelope(d), enc_key_env, crypto_available)
                /\ load(WithEnvelope(w), enc_key_env, crypto_available) =
                      [raised |-> FALSE,
                       value |-> <<UserSecrets(EmptyMap, file[1].custom_secrets)>>]

(***************************************************************************)
(* Properties of the move from the settings to the secrets store           *)
(***************************************************************************)

\* The step is a call of invalidate_legacy_secrets_store (no other step changes
\* what is recorded of the calls).
LegacyCall == legacy' # legacy

\* The call of this step returned None and wrote to neither store.
ReturnedNoneUntouched ==
    /\ legacy'.outcome = "returned_none"
    /\ ~legacy'.wrote_secrets /\ ~legacy'.wrote_settings
    /\ file' = file /\ settings' = settings

C31_MoveKeepsNamedSecrets ==
    [][(LegacyCall /\ legacy'.wrote_secrets)
          => PersistedSecrets(file') = PersistedSecrets(file)]_vars

====
